---- MODULE Spec2Model ----
(***************************************************************************)
(* Model of the App component of src/src/App.jsx (the live recognition     *)
(* loop): the bootstrap of scripts and model, the notification helper      *)
(* showMessage with its timers, the webcam effect with its cleanup, the    *)
(* recognizeImage loop driven by requestAnimationFrame, and the three      *)
(* button handlers.                                                        *)
(*                                                                         *)
(* One action is one turn of the browser's event loop: a handler or a      *)
(* promise continuation, together with the re-render it causes and the     *)
(* effect (cleanup, then body) that React runs when a dependency of the    *)
(* webcam effect changed.                                                  *)
(***************************************************************************)
EXTENDS Integers, Sequences, FiniteSets, Bags, TLC

VARIABLES
    boot,               \* position of the bootstrap chain (scripts, then model)
    model,              \* useState model: "null" or the loaded handle
    isLoading,          \* useState isLoading
    scriptsLoaded,      \* useState scriptsLoaded
    showSplash,         \* useState showSplash
    message,            \* useState message ("" when nothing is displayed)
    isError,            \* useState isError
    timers,             \* pending setTimeout callbacks of showMessage, oldest first
    isRecognizing,      \* useState isRecognizing
    facingMode,         \* useState facingMode
    recognitionResult,  \* useState recognitionResult
    acquiring,          \* pending getUserMedia promises (startWebcam suspended), a bag
    srcObject,          \* videoRef.current.srcObject: <<>> or <<the attached stream>>
    leaked,             \* live streams that nothing references any more
    onloadeddata,       \* videoRef.current.onloadeddata: <<>> or <<the closure it holds>>
    loadedPending,      \* the video element still owes a loadeddata event
    scheduled,          \* requestAnimationFrame callbacks not yet run
    inflight,           \* recognizeImage calls suspended at await model.classify
    animationFrameRef,  \* animationFrameRef.current: a frame id, 0 = null
    stopped,            \* history: stopRecognition ran and startRecognition has not since
    \* The single-frame ObjectDetector component (a separate entry point).
    cameraSetup,        \* position of setupCamera: idle, pending, attached, ...
    modelLoad,          \* position of loadModel: idle, pending, done, failed
    detectorModel,      \* useState model of ObjectDetector
    loading,            \* useState loading
    isLive,             \* useState isLive
    videoRef,           \* videoRef.current: "null" or the mounted video element
    videoStream,        \* srcObject of the video element: "null" or the stream
    paused,             \* the video element's paused attribute
    detecting,          \* processFrame calls suspended at await model.detect
    canvas              \* what drawPredictions left on the canvas: <<>> or <<drawing>>

vars == <<boot, model, isLoading, scriptsLoaded, showSplash, message, isError,
          timers, isRecognizing, facingMode, recognitionResult,
          acquiring, srcObject, leaked, onloadeddata, loadedPending,
          scheduled, inflight, animationFrameRef, stopped,
          cameraSetup, modelLoad, detectorModel, loading, isLive, videoRef,
          videoStream, paused, detecting, canvas>>
detectorVars == <<cameraSetup, modelLoad, detectorModel, loading, isLive,
                  videoRef, videoStream, paused, detecting, canvas>>
appVars == <<boot, model, isLoading, scriptsLoaded, showSplash, message, isError,
             timers, isRecognizing, facingMode, recognitionResult,
             acquiring, srcObject, leaked, onloadeddata, loadedPending,
             scheduled, inflight, animationFrameRef, stopped>>

bootVars == <<boot, model, isLoading, scriptsLoaded, showSplash>>
noteVars == <<message, isError, timers>>
camVars  == <<acquiring, srcObject, leaked, onloadeddata, loadedPending>>
loopVars == <<scheduled, inflight, animationFrameRef>>

(***************************************************************************)
(* Bounds of the model.                                                    *)
(***************************************************************************)
MaxPending == 2     \* getUserMedia calls pending at once
MaxLeaked == 1      \* live streams left unreferenced
MaxLoops == 2       \* recognizeImage loops alive at once
MaxTimers == 2      \* showMessage timers pending at once

(***************************************************************************)
(* Program constants.                                                      *)
(***************************************************************************)
ExpiryDelay == 3    \* setTimeout(..., 3000): three time units

Null == "null"
Handle == "mobilenet"

MsgPreparing   == "Sit back, we're preparing the best experience for you!"
MsgGetReady    == "Get ready for the best experience!"
MsgModelReady  == "All set! The AI model is loaded and ready to go."
MsgModelError  == "Could not load the model. Try again."
MsgScriptError == "Error loading script"
MsgCamError    == "Cannot access webcam. Check permissions."
MsgStarted     == "Recognition started! Looking for objects..."
MsgStopped     == "Recognition stopped."
MsgFlipped     == "Camera flipped!"
MsgLimited     == "Limited dataset: This AI app is still learning and may not give accurate results for this object."

FrameIds == 1..(MaxLoops + 1)

(***************************************************************************)
(* showMessage(text, error): sets the message and the flag and starts a    *)
(* timer that clears both; no timer is ever cancelled.  Every timer has    *)
(* the same delay, so the timers run in the order of their creation: the   *)
(* pending timers form a queue, oldest first.  `latest` marks the timer of *)
(* the most recent call.                                                   *)
(***************************************************************************)
TimersAfterPost(ts) ==
    Append([i \in DOMAIN ts |-> [ts[i] EXCEPT !.latest = FALSE]],
           [delay |-> ExpiryDelay, latest |-> TRUE])

showMessage(text, error) ==
    /\ Len(timers) < MaxTimers
    /\ message' = text
    /\ isError' = error
    /\ timers' = TimersAfterPost(timers)

\* Mutant of Cleared: the timer callback empties the message only.
Cleared_KeepError == [message |-> "", isError |-> isError]

\* What the timer callback leaves on display: setMessage(""), setIsError(false).
Cleared == [message |-> "", isError |-> FALSE]

\* The delay of the oldest timer has passed and its callback runs.
TimerFire ==
    /\ timers # <<>>
    /\ message' = Cleared.message
    /\ isError' = Cleared.isError
    /\ timers' = Tail(timers)
    /\ UNCHANGED <<bootVars, isRecognizing, facingMode, recognitionResult,
                   camVars, loopVars, stopped>>

(***************************************************************************)
(* The webcam effect, deps [isRecognizing, model, facingMode].             *)
(***************************************************************************)
Min(a, b) == IF a < b THEN a ELSE b

\* A MediaStream as getUserMedia delivers it.  stops counts the stop() calls
\* made on its tracks; 2 stands for "more than once".  The stream is live
\* while no call was made.
NewStream(f) == [facing |-> f, stops |-> 0]
Live(so) == so # <<>> /\ so[1].stops = 0

\* srcObject.getTracks().forEach((t) => t.stop()), guarded by srcObject being
\* set.  The stream stays the video element's srcObject.
StopTracks(so) ==
    IF so = <<>> THEN so ELSE <<[so[1] EXCEPT !.stops = Min(@ + 1, 2)]>>

\* cancelAnimationFrame(animationFrameRef.current), guarded by the ref being set.
CancelFrame(sch, ref) ==
    IF ref = 0 THEN sch ELSE {f \in sch : f.id # ref}

\* The closure recognizeImage of a render: the state values it reads are those
\* of the render that created it.
Closure(r, m) == [isRecognizing |-> r, model |-> m]

\* The cleanup returned by the previous run of the effect.
CleanupStream == StopTracks(srcObject)
CleanupFrames == CancelFrame(scheduled, animationFrameRef)

\* The else branch of the effect body, run after the cleanup.
TeardownStream(so) == StopTracks(so)
TeardownFrames(sch) == CancelFrame(sch, animationFrameRef)

\* startWebcam up to its await: getUserMedia({video: {facingMode}}) is issued
\* and the function suspends, holding the recognizeImage of this render.
StartWebcamCall(r, m, f) ==
    acquiring (+) SetToBag({[facing |-> f, cap |-> Closure(r, m)]})

\* A render with the values r, m, f of the three dependencies.  When one of
\* them changed, the previous cleanup runs and then the effect body.
WebcamEffect(r, m, f) ==
    IF <<r, m, f>> = <<isRecognizing, model, facingMode>>
    THEN UNCHANGED <<acquiring, srcObject, scheduled>>
    ELSE IF r /\ m # Null
         THEN /\ BagCardinality(acquiring) < MaxPending
              /\ acquiring' = StartWebcamCall(r, m, f)
              /\ srcObject' = CleanupStream
              /\ scheduled' = CleanupFrames
         ELSE /\ srcObject' = TeardownStream(CleanupStream)
              /\ scheduled' = TeardownFrames(CleanupFrames)
              /\ UNCHANGED acquiring

\* videoRef.current.srcObject = stream.  The stream attached before is
\* dropped as it is: when it is still live nothing references it any more.
LeakedAfterAttach == IF Live(srcObject) THEN leaked + 1 ELSE leaked

\* await getUserMedia resolves in startWebcam: the stream is attached to the
\* video element (which is always mounted) and onloadeddata is installed.
getUserMediaResolve(a) ==
    /\ BagIn(a, acquiring)
    /\ acquiring' = acquiring (-) SetToBag({a})
    /\ LeakedAfterAttach <= MaxLeaked
    /\ leaked' = LeakedAfterAttach
    /\ srcObject' = <<NewStream(a.facing)>>
    /\ onloadeddata' = <<a.cap>>
    /\ loadedPending' = TRUE
    /\ UNCHANGED <<bootVars, noteVars, isRecognizing, facingMode,
                   recognitionResult, loopVars, stopped>>

\* Mutant of getUserMediaReject: the catch branch posts the error only and
\* leaves isRecognizing as it is.
getUserMediaReject_MessageOnly(a) ==
    /\ BagIn(a, acquiring)
    /\ showMessage(MsgCamError, TRUE)
    /\ acquiring' = acquiring (-) SetToBag({a})
    /\ UNCHANGED <<bootVars, isRecognizing, facingMode, recognitionResult,
                   srcObject, leaked, onloadeddata, loadedPending, loopVars,
                   stopped>>

\* await getUserMedia rejects: the catch branch of startWebcam posts the error
\* and calls setIsRecognizing(false); when that changes the state, the effect
\* runs its cleanup and its else branch.
getUserMediaReject(a) ==
    /\ BagIn(a, acquiring)
    /\ showMessage(MsgCamError, TRUE)
    /\ isRecognizing' = FALSE
    /\ acquiring' = acquiring (-) SetToBag({a})
    /\ IF isRecognizing
       THEN /\ srcObject' = TeardownStream(CleanupStream)
            /\ scheduled' = TeardownFrames(CleanupFrames)
       ELSE UNCHANGED <<srcObject, scheduled>>
    /\ UNCHANGED <<bootVars, facingMode, recognitionResult, leaked,
                   onloadeddata, loadedPending, inflight, animationFrameRef,
                   stopped>>

\* requestAnimationFrame returns an id that no pending callback and no stored
\* reference carries.
UsedIds(dead) ==
    ({f.id : f \in scheduled} \cup {t.id : t \in inflight} \cup {animationFrameRef})
        \ dead
FreshId(dead) ==
    CHOOSE i \in FrameIds \ UsedIds(dead) :
        \A j \in FrameIds \ UsedIds(dead) : i <= j

\* The video element fires loadeddata for the attached, still live stream:
\* animationFrameRef.current = requestAnimationFrame(recognizeImage).
LoadedData ==
    /\ loadedPending
    /\ Live(srcObject)
    /\ onloadeddata # <<>>
    /\ Cardinality(scheduled) + Cardinality(inflight) < MaxLoops
    /\ loadedPending' = FALSE
    /\ scheduled' = scheduled \cup {[id |-> FreshId({}), cap |-> onloadeddata[1]]}
    /\ animationFrameRef' = FreshId({})
    /\ UNCHANGED <<bootVars, noteVars, isRecognizing, facingMode,
                   recognitionResult, acquiring, srcObject, leaked,
                   onloadeddata, inflight, stopped>>

(***************************************************************************)
(* The recognition loop.  Probabilities are integers in units of 1/100000, *)
(* so 80000 is 0.8.                                                        *)
(***************************************************************************)
Threshold == 80000

Pad2(n) == IF n < 10 THEN "0" \o ToString(n) ELSE ToString(n)

\* (p * 100).toFixed(2): the percentage rounded to two decimals, as a string.
ToFixed2(p) ==
    LET h == (p + 5) \div 10
    IN ToString(h \div 100) \o "." \o Pad2(h % 100)

\* Mutant of ResultOf: the threshold compared with >= instead of >.
ResultOf_AtLeast(top) ==
    IF top.probability >= Threshold
    THEN [name |-> top.className, confidence |-> ToFixed2(top.probability)]
    ELSE [name |-> Null, confidence |-> MsgLimited]

\* The branch on top.probability > 0.8.
ResultOf(top) ==
    IF top.probability > Threshold
    THEN [name |-> top.className, confidence |-> ToFixed2(top.probability)]
    ELSE [name |-> Null, confidence |-> MsgLimited]

\* What model.classify can deliver: a list ordered by descending probability
\* (possibly empty), or a rejection.
Pred(c, p) == [className |-> c, probability |-> p]
Predictions ==
    { <<>>,
      <<Pred("cat", 91000)>>,
      <<Pred("cat", 80000), Pred("dog", 15000)>>,
      <<Pred("dog", 80004), Pred("cat", 19000)>> }
Outcomes ==
    {[ok |-> TRUE, predictions |-> ps] : ps \in Predictions}
        \cup {[ok |-> FALSE, predictions |-> <<>>]}

\* The try block throws: classify rejected, or predictions[0] is undefined.
Throws(o) == ~o.ok \/ Len(o.predictions) = 0

\* The guard of recognizeImage, read from the closure's own render.
GuardReturns(cap) == cap.model = Null \/ ~cap.isRecognizing

\* A scheduled frame callback runs recognizeImage up to await model.classify.
recognizeImage(f) ==
    /\ f \in scheduled
    /\ scheduled' = scheduled \ {f}
    /\ inflight' = IF GuardReturns(f.cap) THEN inflight ELSE inflight \cup {f}
    /\ UNCHANGED <<bootVars, noteVars, isRecognizing, facingMode,
                   recognitionResult, camVars, animationFrameRef, stopped>>

\* Mutant of ResultAfter: the catch block reports the error in the result (the
\* code the catch block holds commented out).
ResultAfter_Report(o) ==
    IF Throws(o)
    THEN [name |-> "Error recognizing image.", confidence |-> Null]
    ELSE ResultOf(o.predictions[1])

\* The result recognizeImage leaves after classify settled with outcome o.
ResultAfter(o) ==
    IF Throws(o) THEN recognitionResult ELSE ResultOf(o.predictions[1])

\* The frames after the unconditional requestAnimationFrame(recognizeImage).
Reschedule(t) ==
    (scheduled \cup {[id |-> FreshId({t.id}), cap |-> t.cap]})

\* model.classify settles and recognizeImage runs to its end.
classifySettled(t, o) ==
    /\ t \in inflight
    /\ o \in Outcomes
    /\ inflight' = inflight \ {t}
    /\ recognitionResult' = ResultAfter(o)
    /\ scheduled' = Reschedule(t)
    /\ animationFrameRef' = FreshId({t.id})
    /\ UNCHANGED <<bootVars, noteVars, isRecognizing, facingMode, camVars,
                   stopped>>

(***************************************************************************)
(* Button handlers.  Start is rendered while !isRecognizing and disabled   *)
(* while isLoading; Stop is rendered while isRecognizing; Flip always.     *)
(***************************************************************************)
\* Mutant of Flipped: the handler sets a fixed mode instead of toggling.
Flipped_Fixed(f) == "user"

Flipped(f) == IF f = "user" THEN "environment" ELSE "user"

startRecognition ==
    /\ ~isRecognizing
    /\ ~isLoading
    /\ isRecognizing' = TRUE
    /\ showMessage(MsgStarted, FALSE)
    /\ WebcamEffect(TRUE, model, facingMode)
    /\ stopped' = FALSE
    /\ UNCHANGED <<bootVars, facingMode, recognitionResult, leaked,
                   onloadeddata, loadedPending, inflight, animationFrameRef>>

stopRecognition ==
    /\ isRecognizing
    /\ isRecognizing' = FALSE
    /\ showMessage(MsgStopped, FALSE)
    /\ WebcamEffect(FALSE, model, facingMode)
    /\ stopped' = TRUE
    /\ UNCHANGED <<bootVars, facingMode, recognitionResult, leaked,
                   onloadeddata, loadedPending, inflight, animationFrameRef>>

flipCamera ==
    /\ facingMode' = Flipped(facingMode)
    /\ showMessage(MsgFlipped, FALSE)
    /\ WebcamEffect(isRecognizing, model, Flipped(facingMode))
    /\ UNCHANGED <<bootVars, isRecognizing, recognitionResult, leaked,
                   onloadeddata, loadedPending, inflight, animationFrameRef,
                   stopped>>

(***************************************************************************)
(* Bootstrap: the two dependency scripts in a chain, then the model.       *)
(***************************************************************************)
BootFailed == {"tfjsError", "mobilenetError", "noLoader", "modelError"}

\* onload of the TensorFlow script: the callback appends the second script.
tfjsOnload ==
    /\ boot = "tfjs"
    /\ boot' = "mobilenetScript"
    /\ UNCHANGED <<model, isLoading, scriptsLoaded, showSplash, noteVars,
                   isRecognizing, facingMode, recognitionResult, camVars,
                   loopVars, stopped>>

\* onerror of either script: only a message is shown.
scriptOnerror ==
    /\ boot \in {"tfjs", "mobilenetScript"}
    /\ boot' = IF boot = "tfjs" THEN "tfjsError" ELSE "mobilenetError"
    /\ showMessage(MsgScriptError, TRUE)
    /\ UNCHANGED <<model, isLoading, scriptsLoaded, showSplash, isRecognizing,
                   facingMode, recognitionResult, camVars, loopVars, stopped>>

\* The stage loadModel reaches synchronously: suspended at await
\* mobilenet.load() when window.mobilenet is defined, finished otherwise.
LoadModelStage(loader) == IF loader THEN "loadingModel" ELSE "noLoader"

\* Mutant of mobilenetOnload: both scripts are appended at once, so the second
\* can finish loading while the first is still loading.
mobilenetOnload_Parallel(loader) ==
    /\ boot \in {"tfjs", "mobilenetScript"}
    /\ scriptsLoaded' = TRUE
    /\ Len(timers) + 2 <= MaxTimers
    /\ message' = MsgPreparing
    /\ isError' = FALSE
    /\ timers' = TimersAfterPost(TimersAfterPost(timers))
    /\ boot' = IF loader THEN "loadingModel" ELSE "noLoader"
    /\ UNCHANGED <<model, isLoading, showSplash, isRecognizing, facingMode,
                   recognitionResult, camVars, loopVars, stopped>>

\* onload of the mobilenet script: setScriptsLoaded(true) and a message; the
\* re-render runs the loadModel effect, which posts its own message and reads
\* window.mobilenet (loader: whether the script defined it).
mobilenetOnload(loader) ==
    /\ boot = "mobilenetScript"
    /\ scriptsLoaded' = TRUE
    /\ Len(timers) + 2 <= MaxTimers
    /\ message' = MsgPreparing
    /\ isError' = FALSE
    /\ timers' = TimersAfterPost(TimersAfterPost(timers))
    /\ boot' = LoadModelStage(loader)
    /\ UNCHANGED <<model, isLoading, showSplash, isRecognizing, facingMode,
                   recognitionResult, camVars, loopVars, stopped>>

\* await mobilenet.load() resolves.
loadResolve ==
    /\ boot = "loadingModel"
    /\ boot' = "ready"
    /\ model' = Handle
    /\ isLoading' = FALSE
    /\ showMessage(MsgModelReady, FALSE)
    /\ showSplash' = FALSE
    /\ WebcamEffect(isRecognizing, Handle, facingMode)
    /\ UNCHANGED <<scriptsLoaded, isRecognizing, facingMode, recognitionResult,
                   leaked, onloadeddata, loadedPending, inflight,
                   animationFrameRef, stopped>>

\* Mutant of loadReject: the catch branch resets scriptsLoaded to run the
\* loadModel effect again once the script is back.
loadReject_Retry ==
    /\ boot = "loadingModel"
    /\ boot' = "mobilenetScript"
    /\ showMessage(MsgModelError, TRUE)
    /\ scriptsLoaded' = FALSE
    /\ UNCHANGED <<model, isLoading, showSplash, isRecognizing, facingMode,
                   recognitionResult, camVars, loopVars, stopped>>

\* await mobilenet.load() rejects: the catch branch of loadModel.
loadReject ==
    /\ boot = "loadingModel"
    /\ boot' = "modelError"
    /\ showMessage(MsgModelError, TRUE)
    /\ isLoading' = FALSE
    /\ showSplash' = FALSE
    /\ UNCHANGED <<model, scriptsLoaded, isRecognizing, facingMode,
                   recognitionResult, camVars, loopVars, stopped>>

(***************************************************************************)
(* The single-frame ObjectDetector.  Its mount effect starts setupCamera   *)
(* and loadModel together; the video element, the canvas and both buttons  *)
(* are rendered only while loading is false.                               *)
(***************************************************************************)
Stream == "stream"
Video == "video"
Cocossd == "cocossd"

\* Bounds of the detector: boxes in one detection, detect calls in flight.
MaxBoxes == 2
MaxDetect == 2

DetectorUnmounted ==
    /\ cameraSetup = "idle"
    /\ modelLoad = "idle"
    /\ detectorModel = Null
    /\ loading = TRUE
    /\ isLive = TRUE
    /\ videoRef = Null
    /\ videoStream = Null
    /\ paused = TRUE
    /\ detecting = 0
    /\ canvas = <<>>

\* The state after the first render and the mount effect: setupCamera has
\* either found no getUserMedia and returned, or is suspended at its await;
\* loadModel is suspended at await cocossd.load(); no video element exists.
DetectorMounted ==
    /\ cameraSetup \in {"pending", "unsupported"}
    /\ modelLoad = "pending"
    /\ detectorModel = Null
    /\ loading = TRUE
    /\ isLive = TRUE
    /\ videoRef = Null
    /\ videoStream = Null
    /\ paused = TRUE
    /\ detecting = 0
    /\ canvas = <<>>

\* getUserMedia resolves: videoRef.current.srcObject = stream, then play().
\* With videoRef.current null the assignment throws a TypeError, which ends
\* setupCamera (nothing catches it) with the stream attached nowhere.
setupCameraResolve ==
    /\ cameraSetup = "pending"
    /\ IF videoRef = Null
       THEN /\ cameraSetup' = "threw"
            /\ UNCHANGED <<videoStream, paused>>
       ELSE /\ cameraSetup' = "attached"
            /\ videoStream' = Stream
            /\ paused' = FALSE
    /\ UNCHANGED <<modelLoad, detectorModel, loading, isLive, videoRef,
                   detecting, canvas, appVars>>

\* getUserMedia rejects: setupCamera ends, nothing is attached.
setupCameraReject ==
    /\ cameraSetup = "pending"
    /\ cameraSetup' = "denied"
    /\ UNCHANGED <<modelLoad, detectorModel, loading, isLive, videoRef,
                   videoStream, paused, detecting, canvas, appVars>>

\* cocossd.load() resolves: setModel, setLoading(false); the render that
\* follows mounts the video element and sets videoRef.current.
loadModelResolve ==
    /\ modelLoad = "pending"
    /\ modelLoad' = "done"
    /\ detectorModel' = Cocossd
    /\ loading' = FALSE
    /\ videoRef' = Video
    /\ UNCHANGED <<cameraSetup, isLive, videoStream, paused, detecting,
                   canvas, appVars>>

\* cocossd.load() rejects: loadModel ends, loading stays true.
loadModelReject ==
    /\ modelLoad = "pending"
    /\ modelLoad' = "failed"
    /\ UNCHANGED <<cameraSetup, detectorModel, loading, isLive, videoRef,
                   videoStream, paused, detecting, canvas, appVars>>

\* Capture and Detect, a button that exists only while loading is false.
processFrame ==
    /\ ~loading
    /\ detecting < MaxDetect
    /\ IF detectorModel # Null /\ videoRef # Null
       THEN /\ isLive' = FALSE
            /\ paused' = TRUE
            /\ detecting' = detecting + 1
       ELSE UNCHANGED <<isLive, paused, detecting>>
    /\ UNCHANGED <<cameraSetup, modelLoad, detectorModel, loading, videoRef,
                   videoStream, canvas, appVars>>

\* What model.detect can do: throw, or return 0..MaxBoxes predictions.
DetectOutcomes ==
    {[throws |-> TRUE, boxes |-> 0]}
        \cup {[throws |-> FALSE, boxes |-> n] : n \in 0 .. MaxBoxes}

\* drawPredictions: the video frame (empty when the element has no stream)
\* and one box per prediction.
Drawing(boxes) == [frame |-> videoStream # Null, boxes |-> boxes]

\* await model.detect settles; on success drawPredictions paints the canvas.
detectSettled(o) ==
    /\ detecting > 0
    /\ detecting' = detecting - 1
    /\ canvas' = IF o.throws \/ videoRef = Null
                 THEN canvas
                 ELSE <<Drawing(o.boxes)>>
    /\ UNCHANGED <<cameraSetup, modelLoad, detectorModel, loading, isLive,
                   videoRef, videoStream, paused, appVars>>

\* Go Live, a button that exists only while loading is false.
goLive ==
    /\ ~loading
    /\ isLive' = TRUE
    /\ paused' = FALSE
    /\ UNCHANGED <<cameraSetup, modelLoad, detectorModel, loading, videoRef,
                   videoStream, detecting, canvas, appVars>>

(***************************************************************************)
(* The state after the first render and its effects: the script effect has *)
(* posted its message and appended the first script; the webcam effect ran *)
(* its else branch on an empty video element.                              *)
(***************************************************************************)
AppInit ==
    /\ boot = "tfjs"
    /\ model = Null
    /\ isLoading = TRUE
    /\ scriptsLoaded = FALSE
    /\ showSplash = TRUE
    /\ message = MsgPreparing
    /\ isError = FALSE
    /\ timers = <<[delay |-> ExpiryDelay, latest |-> TRUE]>>
    /\ isRecognizing = FALSE
    /\ facingMode = "environment"
    /\ recognitionResult = [name |-> Null, confidence |-> Null]
    /\ acquiring = EmptyBag
    /\ srcObject = <<>>
    /\ leaked = 0
    /\ onloadeddata = <<>>
    /\ loadedPending = FALSE
    /\ scheduled = {}
    /\ inflight = {}
    /\ animationFrameRef = 0
    /\ stopped = FALSE

\* App is the component under execution; ObjectDetector is not mounted.
Init == AppInit /\ DetectorUnmounted

Next ==
    \/ tfjsOnload /\ UNCHANGED detectorVars
    \/ scriptOnerror /\ UNCHANGED detectorVars
    \/ \E loader \in BOOLEAN : mobilenetOnload(loader) /\ UNCHANGED detectorVars
    \/ loadResolve /\ UNCHANGED detectorVars
    \/ loadReject /\ UNCHANGED detectorVars
    \/ startRecognition /\ UNCHANGED detectorVars
    \/ stopRecognition /\ UNCHANGED detectorVars
    \/ flipCamera /\ UNCHANGED detectorVars
    \/ \E a \in BagToSet(acquiring) : getUserMediaResolve(a) /\ UNCHANGED detectorVars
    \/ \E a \in BagToSet(acquiring) : getUserMediaReject(a) /\ UNCHANGED detectorVars
    \/ LoadedData /\ UNCHANGED detectorVars
    \/ \E f \in scheduled : recognizeImage(f) /\ UNCHANGED detectorVars
    \/ \E t \in inflight : \E o \in Outcomes :
            classifySettled(t, o) /\ UNCHANGED detectorVars
    \/ TimerFire /\ UNCHANGED detectorVars

Spec == Init /\ [][Next]_vars

\* ObjectDetector is the component under execution; App stays as constructed.
DetectorInit == AppInit /\ DetectorMounted

DetectorNext ==
    \/ setupCameraResolve
    \/ setupCameraReject
    \/ loadModelResolve
    \/ loadModelReject
    \/ processFrame
    \/ \E o \in DetectOutcomes : detectSettled(o)
    \/ goLive

DetectorSpec == DetectorInit /\ [][DetectorNext]_vars

(***************************************************************************)
(* Properties.                                                             *)
(***************************************************************************)

\* The session states of the specification, read off the component's state:
\* Recognizing is isRecognizing with the model present and no camera request
\* outstanding; Acquiring is isRecognizing with a request outstanding.
SessionRecognizing ==
    isRecognizing /\ model # Null /\ acquiring = EmptyBag

\* A step of the recognition loop: a frame callback runs recognizeImage, or a
\* suspended recognizeImage resumes and schedules the next frame.
TickStep ==
    \/ \E f \in scheduled : recognizeImage(f)
    \/ \E t \in inflight : \E o \in Outcomes : classifySettled(t, o)

\* C1: a live camera stream is attached if and only if the session is
\* Recognizing; in particular no live stream is attached while isRecognizing
\* is false.
C1_StreamIffRecognizing ==
    /\ Live(srcObject) => isRecognizing
    /\ Live(srcObject) <=> SessionRecognizing

\* C2: once stopRecognition has been processed (and until the next start), no
\* recognizeImage call runs and no frame is rescheduled.
C2_NoTickAfterStop == [][stopped => ~TickStep]_vars

\* C3: startRecognition while the model is absent leaves isRecognizing false
\* and posts a notification that the model is not ready (so not the
\* "Recognition started" message).
C3_StartRejectedWithoutModel ==
    [][(startRecognition /\ model = Null)
          => (~isRecognizing' /\ message' # MsgStarted)]_vars

\* C4: a message on display is cleared only by its own timer: the timer of a
\* superseded message never clears the message that replaced it.
C4_SupersededTimerNeverClears ==
    [][(message # "" /\ message' = "") => Head(timers).latest]_vars

\* C5: flipCamera while the session is Recognizing with its live stream
\* attached issues one new getUserMedia call whose facing mode is the opposite
\* of the one the attached stream was acquired with.
FlipRequest == [facing |-> Flipped(srcObject[1].facing),
                cap |-> Closure(isRecognizing, model)]
C5_FlipRequestsOppositeFacing ==
    [][(flipCamera /\ SessionRecognizing /\ Live(srcObject))
          => acquiring' = acquiring (+) SetToBag({FlipRequest})]_vars

\* C6: after a flipCamera issued while isRecognizing with a stream attached
\* (a second flip before the pending acquisition completes included), stop()
\* has been called on that stream's tracks exactly once.
C6_ReleasedExactlyOnce ==
    [][(flipCamera /\ isRecognizing /\ srcObject # <<>>)
          => (srcObject' # <<>> /\ srcObject'[1].stops = 1)]_vars

\* C7: when the try block of recognizeImage throws (classify rejects, or the
\* prediction list is empty), the result keeps its value, no notification is
\* posted, and the next frame is scheduled with the same callback.
C7_FailedTickKeepsResultAndReschedules ==
    [][\A t \in inflight : \A o \in Outcomes :
          (classifySettled(t, o) /\ Throws(o))
             => /\ recognitionResult' = recognitionResult
                /\ UNCHANGED noteVars
                /\ \E f \in scheduled' \ scheduled :
                      f.cap = t.cap /\ animationFrameRef' = f.id]_vars

\* C7 witness: a tick is suspended at model.classify (which may now fail)
\* while an earlier tick's result is on display and no notification is shown.
C7_Witness ==
    /\ inflight # {}
    /\ recognitionResult.name = "cat"
    /\ message = ""

\* C8: a successful tick sets the result from the first prediction alone:
\* label and two-decimal percentage when its probability is above 0.8, no
\* label and the fixed message otherwise, 0.8 itself included.
C8_Percent(top) ==
    CASE top.probability = 91000 -> "91.00"
      [] top.probability = 80004 -> "80.00"
      [] OTHER -> "?"
C8_Expected(top) ==
    IF top.probability > 80000
    THEN [name |-> top.className, confidence |-> C8_Percent(top)]
    ELSE [name |-> Null, confidence |-> MsgLimited]
C8_ThresholdedResult ==
    [][\A t \in inflight : \A o \in Outcomes :
          (classifySettled(t, o) /\ ~Throws(o))
             => recognitionResult' = C8_Expected(Head(o.predictions))]_vars

\* C8 witness: a tick delivered a prediction at exactly 0.8 first, and the
\* low-confidence result is on display.
C8_Witness ==
    /\ recognitionResult = [name |-> Null, confidence |-> MsgLimited]
    /\ scheduled # {}

\* C9: the model handle is set at most once and never replaced or cleared,
\* scriptsLoaded never returns to false, isLoading never returns to true.
C9_BootstrapMonotonic ==
    [][/\ model # Null => model' = model
       /\ scriptsLoaded => scriptsLoaded'
       /\ ~isLoading => ~isLoading']_vars

\* C9 witness: the bootstrap is Ready and the session is in use.
C9_Witness ==
    /\ boot = "ready"
    /\ model = Handle
    /\ scriptsLoaded
    /\ ~isLoading
    /\ isRecognizing

\* C10: a failure at either bootstrap stage ends the loading phase and posts
\* an error notification, and the failed state is terminal.
C10_FailureEndsLoading ==
    [][/\ (boot \notin BootFailed /\ boot' \in BootFailed)
            => (~isLoading' /\ isError' /\ message' # "")
       /\ boot \in BootFailed => boot' = boot]_vars

\* The number of acquired streams whose tracks have not been stopped.
LiveStreams == (IF Live(srcObject) THEN 1 ELSE 0) + leaked

\* C12: when getUserMedia rejects while the session is recognizing, an error
\* notification is posted and the session is left not recognizing, with no
\* live stream attached and no frame callback scheduled.
C12_FailureLeavesNothingBehind ==
    [][\A a \in BagToSet(acquiring) :
          (isRecognizing /\ getUserMediaReject(a))
             => /\ message' = MsgCamError /\ isError'
                /\ ~isRecognizing'
                /\ ~Live(srcObject')
                /\ scheduled' = {}]_vars

\* C13: at most one classification tick is scheduled or in flight.
C13_AtMostOneTick == Cardinality(scheduled) + Cardinality(inflight) <= 1

\* C14: a stream delivered after stopRecognition was processed (and before
\* any new start) is discarded: it is not attached live to the video element,
\* no loadeddata handler is armed for it, and the session stays idle.
C14_LateStreamDiscarded ==
    [][\A a \in BagToSet(acquiring) :
          (stopped /\ getUserMediaResolve(a))
             => /\ ~Live(srcObject')
                /\ loadedPending' = loadedPending
                /\ ~isRecognizing']_vars

\* C15: a frame callback that runs while the session is not recognizing or
\* the model is absent returns at its guard: no classification is started.
C15_GuardReadsCurrentState ==
    [][\A f \in scheduled :
          (recognizeImage(f) /\ (~isRecognizing \/ model = Null))
             => /\ inflight' = inflight
                /\ recognitionResult' = recognitionResult]_vars

\* C16: stopRecognition processed while Recognizing, with a live stream
\* attached and a tick scheduled but not started, stops the stream's tracks
\* and leaves no frame callback scheduled, in the same step.
C16_StopCancelsScheduledTick ==
    [][(stopRecognition /\ SessionRecognizing /\ Live(srcObject)
            /\ scheduled # {} /\ inflight = {})
          => (~Live(srcObject') /\ scheduled' = {})]_vars

\* C17: the second script starts loading only once the first has loaded, the
\* model load starts only once the second has loaded and scriptsLoaded is
\* set, and the model handle is never present while scriptsLoaded is false.
C17_BootstrapInOrder ==
    [][/\ (boot' = "mobilenetScript" /\ boot # "mobilenetScript")
            => boot = "tfjs"
       /\ (boot' \in {"loadingModel", "noLoader"} /\ boot' # boot)
            => (boot = "mobilenetScript" /\ scriptsLoaded')
       /\ (boot' \in {"ready", "modelError"} /\ boot' # boot)
            => boot = "loadingModel"
       /\ model' # Null => scriptsLoaded']_vars

\* C17 witness: the model load is under way after both scripts loaded.
C17_Witness ==
    /\ boot = "loadingModel"
    /\ scriptsLoaded
    /\ model = Null

\* C18: facingMode changes only in flipCamera, which toggles it; and
\* startRecognition requests the camera with the facingMode it finds.
C18_StartRequest == [facing |-> facingMode, cap |-> Closure(TRUE, model)]
C18_FacingChangesOnlyOnFlip ==
    [][/\ facingMode' # facingMode => flipCamera
       /\ flipCamera
            => /\ facingMode = "user" => facingMode' = "environment"
               /\ facingMode = "environment" => facingMode' = "user"
       /\ (startRecognition /\ model # Null)
            => acquiring' = acquiring (+) SetToBag({C18_StartRequest})]_vars

\* C18 witness: after a flip and a stop, a start has requested the user camera.
C18_Witness ==
    /\ message = MsgStarted
    /\ facingMode = "user"
    /\ \E a \in BagToSet(acquiring) : a.facing = "user"

\* C20: at most one acquired stream has unreleased tracks.
C20_AtMostOneLiveStream == LiveStreams <= 1

(***************************************************************************)
(* Liveness.  The browser runs a timer callback that is due, settles every *)
(* getUserMedia request, and fires loadeddata on a video element that has  *)
(* a live stream; the user and the classifier are under no obligation.     *)
(***************************************************************************)
getUserMediaSettles ==
    \E a \in BagToSet(acquiring) :
        getUserMediaResolve(a) \/ getUserMediaReject(a)

FairSpec ==
    /\ Spec
    /\ WF_vars(TimerFire /\ UNCHANGED detectorVars)
    /\ WF_vars(getUserMediaSettles /\ UNCHANGED detectorVars)
    /\ WF_vars(LoadedData /\ UNCHANGED detectorVars)

\* A step in which showMessage is called.
PostStep == Len(timers') > Len(timers)

\* C19: unless showMessage is called again and again forever, the
\* notification ends up cleared for good: message empty, isError false and
\* no timer left.
C19_EventuallyCleared ==
    \/ []<><<PostStep>>_vars
    \/ <>[](message = "" /\ ~isError /\ timers = <<>>)

\* C19 witness: the timer of the last message has fired after an error
\* notification was on display.
C19_Witness ==
    /\ boot \in BootFailed
    /\ timers = <<>>
    /\ message = ""
    /\ ~isError

\* A step taken by the user: one of the three button handlers.
UserStep == startRecognition \/ stopRecognition \/ flipCamera

\* The session is recognizing and waits for a getUserMedia request.
Acquiring == isRecognizing /\ acquiring # EmptyBag

\* No request is pending, the delivered stream is attached and live, and its
\* loadeddata handler has scheduled the first tick.
FirstTickScheduled ==
    /\ isRecognizing
    /\ acquiring = EmptyBag
    /\ Live(srcObject)
    /\ ~loadedPending
    /\ scheduled \cup inflight # {}

\* MaxLoops loops are alive: the guard of LoadedData cuts the behaviour off
\* here, so nothing is asserted beyond this point.
LoopsAtBound == Cardinality(scheduled) + Cardinality(inflight) >= MaxLoops

\* C11: unless the user goes on pressing buttons forever, a session that is
\* acquiring the camera gets to recognizing with the first tick scheduled, or
\* to not recognizing (the failure state).
C11_AcquisitionResolves ==
    \/ []<><<UserStep>>_vars
    \/ (Acquiring ~> (FirstTickScheduled \/ ~isRecognizing \/ LoopsAtBound))

\* C11 witness: an acquisition has resolved into a running session.
C11_Witness == FirstTickScheduled /\ ~LoopsAtBound /\ facingMode = "user"

\* C21: the rejection of a request that a flip has superseded (it asked for
\* the facing mode the session no longer uses) leaves the recognizing session
\* alone: isRecognizing stays true, the attached stream keeps its tracks and
\* no scheduled frame callback is cancelled.
C21_LateFailureIsLocal ==
    [][\A a \in BagToSet(acquiring) :
          (isRecognizing /\ a.facing # facingMode /\ getUserMediaReject(a))
             => /\ isRecognizing'
                /\ srcObject' = srcObject
                /\ scheduled' = scheduled]_vars

\* C22: once getUserMedia has delivered a stream and the model has loaded,
\* in whichever order, the stream is the srcObject of the video element.
C22_AttachedInBothOrders ==
    (modelLoad = "done" /\ cameraSetup \in {"attached", "threw"})
        => videoStream = Stream

====
